---- MODULE Spec2Model ----
(***************************************************************************)
(* Token verification, role auto-assignment and role/permission gates of   *)
(* the AuthApp backend (Keycloak scheme: middleware/keycloakAuth.js and    *)
(* routes/user.js; local scheme: middleware/auth.js).                      *)
(*                                                                         *)
(* A request is a small process: every `await` of the JavaScript code is   *)
(* one action (the outbound call, the provider's effect and the code that  *)
(* runs synchronously on its answer).  The identity provider is the        *)
(* environment: every call can fail, and its state is the realm's roles,   *)
(* users, user attributes and role mappings.                               *)
(***************************************************************************)
EXTENDS Naturals, Integers, Sequences, FiniteSets, TLC

(* ------------------------------ bounds -------------------------------- *)
\* number of request slots (SpecConc runs them concurrently)
NumReqs == 2
\* longest Authorization header, in chunks
MaxHeaderLen == 2
\* longest realm_access.roles list carried by a token
MaxTokenRoles == 1
\* longest role list handed to a gate in SpecGate
MaxRoles == 2

(* ----------------------------- vocabulary ----------------------------- *)
Reqs == 1..NumReqs
NoVal == "none"
Users == {"u1", "u2"}
Recognized == {"user", "moderator", "admin"}
\* "guest" stands for any role name outside the enumeration
RoleNames == Recognized \cup {"guest"}
BearerPrefix == "Bearer "
\* "jwt" is a three-segment token with a JSON payload, "opq" a token
\* without a decodable payload segment, "Basic " any other text
Chunks == {BearerPrefix, "jwt", "opq", "Basic "}

SeqsUpTo(S, n) == UNION {[1..k -> S] : k \in 0..n}

NoHeader == [present |-> FALSE, chunks |-> <<>>]
Headers == {NoHeader} \cup
           {[present |-> TRUE, chunks |-> c] : c \in SeqsUpTo(Chunks, MaxHeaderLen)}

NoUser == [id |-> NoVal, roles |-> <<>>, selectedRole |-> NoVal]
NoRes == [status |-> 0, message |-> "", permissions |-> {}]
Range(s) == {s[i] : i \in 1..Len(s)}

VARIABLES
  pc,          \* where each request is
  header,      \* its Authorization header
  token,       \* the local `token` of the verifier
  user,        \* req.user
  res,         \* the response sent (NoRes: none yet)
  nextCalled,  \* how many times the verifier called next()
  log,         \* outbound calls made, as <<phase, call, answer>>
  phase,       \* "verify", "auto" (autoAssignRole in the verifier),
               \* "auto2" (autoAssignRole in a handler) or "handler"
  aaFailed,    \* a call of autoAssignRole threw inside its try block
  roleToAssign,
  route, param, body,
  gate,        \* the guard in front of the handler
  gatePassed,
  toRemove,    \* customRolesToRemove of the role-update handler
  rolesAtNext, \* req.user.roles when the verifier called next()
  introspected,\* what the introspection call answered (NoVal: not called)
  realmRoles,  \* provider: roles defined in the realm
  grants,      \* provider: realm role mappings of each user
  userAttr,    \* provider: the user's stored 'role' attribute
  kcUsers,     \* provider: existing users
  store,       \* local scheme: the Credential Records (User collection)
  decoded,     \* local scheme: decoded.userId of the verified token
  luser,       \* local scheme: req.user
  regBody,     \* local scheme: req.body of a registration
  keycloak,    \* frontend: the keycloak-js instance (session and token roles)
  userRolesState, \* frontend: the userRoles state of the KeycloakProvider
  retryCount,  \* frontend: the argument of the running loadUserRoles
  fePc,        \* frontend: where the role-loading chain is
  uiPermissions \* frontend: the permissions Home hands to UserProfile

reqVars == <<pc, header, token, user, res, nextCalled, log, phase, aaFailed,
             roleToAssign, route, param, body, gate, gatePassed, toRemove,
             rolesAtNext, introspected>>
kcVars == <<realmRoles, grants, userAttr, kcUsers>>
localVars == <<store, decoded, luser, regBody>>
feVars == <<keycloak, userRolesState, retryCount, fePc, uiPermissions>>
vars == <<reqVars, kcVars, localVars, feVars>>

(* ------------------------- string operations -------------------------- *)
\* String.prototype.replace('Bearer ', ''): drops the first occurrence
RECURSIVE ReplaceFirst(_, _)
ReplaceFirst(s, c) ==
  IF s = <<>> THEN <<>>
  ELSE IF Head(s) = c THEN Tail(s)
  ELSE <<Head(s)>> \o ReplaceFirst(Tail(s), c)

\* Array.prototype.join(sep)
RECURSIVE Join(_, _)
Join(s, sep) ==
  IF s = <<>> THEN ""
  ELSE IF Len(s) = 1 THEN s[1]
  ELSE s[1] \o sep \o Join(Tail(s), sep)

\* mutant: the filter keeps nothing
NoCustomRoles(s) == <<>>

\* roles.filter(r => ['user','moderator','admin'].includes(r))
RECURSIVE CustomRoles(_)
CustomRoles(s) ==
  IF s = <<>> THEN <<>>
  ELSE IF Head(s) \in Recognized THEN <<Head(s)>> \o CustomRoles(Tail(s))
  ELSE CustomRoles(Tail(s))

(* --------------------------- initial state ---------------------------- *)
NoGate == [kind |-> NoVal, single |-> NoVal, roles |-> <<>>, perm |-> NoVal]
\* the realm as set up for the application: u1 is the administrator, u2 a
\* user who registered and holds no role mapping yet
InitGrants == [u \in Users |-> IF u = "u1" THEN {"admin"} ELSE {}]

IdleReqs ==
  /\ pc = [r \in Reqs |-> "idle"]
  /\ header = [r \in Reqs |-> NoHeader]
  /\ token = [r \in Reqs |-> <<>>]
  /\ user = [r \in Reqs |-> NoUser]
  /\ res = [r \in Reqs |-> NoRes]
  /\ nextCalled = [r \in Reqs |-> 0]
  /\ log = [r \in Reqs |-> <<>>]
  /\ phase = [r \in Reqs |-> "verify"]
  /\ aaFailed = [r \in Reqs |-> {}]
  /\ roleToAssign = [r \in Reqs |-> NoVal]
  /\ route = [r \in Reqs |-> NoVal]
  /\ param = [r \in Reqs |-> NoVal]
  /\ body = [r \in Reqs |-> NoVal]
  /\ gate = [r \in Reqs |-> NoGate]
  /\ gatePassed = [r \in Reqs |-> FALSE]
  /\ toRemove = [r \in Reqs |-> {}]
  /\ rolesAtNext = [r \in Reqs |-> <<>>]
  /\ introspected = [r \in Reqs |-> NoVal]

InitKc ==
  /\ realmRoles \in {Recognized, {"admin"}}
  /\ grants = InitGrants
  /\ userAttr \in [Users -> {NoVal}] \cup
                  {[u \in Users |-> IF u = "u2" THEN a ELSE NoVal] : a \in {"moderator", "guest"}}
  /\ kcUsers = Users

\* the local scheme at rest
LocalIds == {"a1", "a2"}
NoLocalUser == [id |-> NoVal, username |-> NoVal, email |-> NoVal, role |-> NoVal]
\* userSchema.pre('save'): bcrypt.hash(this.password, salt)
Hash(pw) == <<"bcrypt", pw>>
SeedRecords ==
  {[id |-> "a1", username |-> "alice", email |-> "alice@example.com",
    password |-> Hash("secret"), role |-> "admin"],
   [id |-> "a2", username |-> "bob", email |-> "bob@example.com",
    password |-> Hash("secret"), role |-> "user"]}
NoBody == [username |-> NoVal, email |-> NoVal, password |-> NoVal, role |-> NoVal]
IdleLocal ==
  /\ decoded = [r \in Reqs |-> NoVal]
  /\ luser = [r \in Reqs |-> NoLocalUser]
  /\ regBody = [r \in Reqs |-> NoBody]

\* the frontend before the provider is mounted
NoPermissions == <<"none">>
IdleFrontend ==
  /\ keycloak = [authenticated |-> FALSE, token |-> FALSE, roles |-> <<>>]
  /\ userRolesState = <<>>
  /\ retryCount = 0
  /\ fePc = "idle"
  /\ uiPermissions = NoPermissions

Init == IdleReqs /\ InitKc /\ IdleLocal /\ IdleFrontend /\ store = {}

(* ------------------------------ helpers ------------------------------- *)
Reply(st, msg) == [status |-> st, message |-> msg, permissions |-> {}]
\* an outbound call and its answer: "ok", "fail" (no answer, or a 5xx),
\* or the HTTP status of a refusal
Logged(r, call, out) == log' = [log EXCEPT ![r] = Append(@, <<phase[r], call, out>>)]
Ok(b) == IF b THEN "ok" ELSE "fail"
Answer(ok, found, refusal) == IF ~ok THEN "fail" ELSE IF found THEN "ok" ELSE refusal
Calls(r, ph) == {i \in 1..Len(log[r]) : log[r][i][1] = ph}
\* no call of the request went unanswered or met a provider error
NoFault(r) == \A i \in 1..Len(log[r]) : log[r][i][3] # "fail"
Called(r, call) == \E i \in 1..Len(log[r]) : log[r][i][2] = call

\* the request moves on; nothing is sent and next is not called
Stay(r, l) ==
  /\ pc' = [pc EXCEPT ![r] = l]
  /\ UNCHANGED <<res, nextCalled, phase, aaFailed, rolesAtNext>>

\* the request ends with a response
Send(r, reply) ==
  /\ pc' = [pc EXCEPT ![r] = "done"]
  /\ res' = [res EXCEPT ![r] = reply]

(* --------------------- verifyKeycloakToken (remote) -------------------- *)
\* req.header('Authorization')?.replace('Bearer ', ''); <<>> is undefined or ''
ExtractToken(h) ==
  IF ~h.present THEN <<>> ELSE ReplaceFirst(h.chunks, BearerPrefix)

\* token.split('.')[1] is a base64 JSON payload iff the text holds a JWT
Decodable(t) == \E i \in 1..Len(t) : t[i] = "jwt"

\* what the introspection endpoint can answer: only a token the provider
\* issued can be reported active
IntrospectOutcomes(t) ==
  {"inactive", "http401", "http500", "timeout"} \cup
  (IF Len(t) = 1 /\ t[1] \in {"jwt", "opq"} THEN {"active"} ELSE {})

\* error.response?.status of the error thrown for an outcome (0: no response)
ErrorStatus(out) ==
  CASE out = "http401" -> 401
    [] out = "http500" -> 500
    [] OTHER -> 0

\* the catch block of verifyKeycloakToken
VerifyCatch(status) ==
  IF status = 401 THEN Reply(401, "Invalid or expired token.")
  ELSE Reply(401, "Token verification failed.")

\* the identities a decoded payload can yield
Identities ==
  {[id |-> u, roles |-> rs, selectedRole |-> sr] :
     u \in Users, rs \in SeqsUpTo(RoleNames, MaxTokenRoles),
     sr \in RoleNames \cup {NoVal}}

\* mutant: the check of `active` is dropped
IntrospectAcceptsInactive(out) == out \in {"active", "inactive"}

\* if (!introspectResponse.data.active) throw
IntrospectAccepts(out) == out = "active"

\* a request arrives with one of the headers hs
StartWith(r, hs) ==
  /\ pc[r] = "idle"
  /\ \E h \in hs : header' = [header EXCEPT ![r] = h]
  /\ pc' = [pc EXCEPT ![r] = "verify"]
  /\ UNCHANGED <<token, user, res, nextCalled, log, phase, aaFailed, roleToAssign,
                 route, param, body, gate, gatePassed, toRemove, rolesAtNext,
                 introspected, kcVars>>
  /\ UNCHANGED <<localVars, feVars>>

Start(r) == StartWith(r, Headers)

VerifyExtract(r) ==
  /\ pc[r] = "verify"
  /\ token' = [token EXCEPT ![r] = ExtractToken(header[r])]
  /\ IF token'[r] = <<>>
       THEN /\ Send(r, Reply(401, "Access denied. No token provided."))
            /\ UNCHANGED <<nextCalled, phase, aaFailed, rolesAtNext>>
       ELSE Stay(r, "introspect")
  /\ UNCHANGED <<header, user, log, roleToAssign, route, param, body, gate,
                 gatePassed, toRemove, introspected, kcVars>>
  /\ UNCHANGED <<localVars, feVars>>

\* lines 12-40: the introspection call, then the payload is decoded into
\* req.user; ids are the identities the payload can carry
IntrospectWith(r, ids) ==
  /\ pc[r] = "introspect"
  /\ \E out \in IntrospectOutcomes(token[r]) :
       /\ Logged(r, "introspect", out)
       /\ introspected' = [introspected EXCEPT ![r] = out]
       /\ IF IntrospectAccepts(out) /\ Decodable(token[r])
            THEN /\ \E id \in ids : user' = [user EXCEPT ![r] = id]
                 /\ pc' = [pc EXCEPT ![r] = "aa_start"]
                 /\ phase' = [phase EXCEPT ![r] = "auto"]
                 /\ UNCHANGED <<res, nextCalled, aaFailed, rolesAtNext>>
            ELSE /\ Send(r, VerifyCatch(ErrorStatus(out)))
                 /\ UNCHANGED <<user, nextCalled, phase, aaFailed, rolesAtNext>>
  /\ UNCHANGED <<header, token, roleToAssign, route, param, body, gate,
                 gatePassed, toRemove, kcVars>>
  /\ UNCHANGED <<localVars, feVars>>

Introspect(r) == IntrospectWith(r, Identities)

(* --------------------------- autoAssignRole ---------------------------- *)
\* mutant: the catch block rethrows
AutoAssignRethrows(failed) == failed

\* the try/catch around the whole body: whatever was thrown inside,
\* autoAssignRole returns normally
AutoAssignThrows(failed) == FALSE

\* autoAssignRole is over (it returned, or threw to its caller): in the
\* verifier the next statement is next(); in GET /assign-role the handler
\* answers
AaReturnWith(r, failed, roles) ==
  /\ aaFailed' = [aaFailed EXCEPT ![r] = IF failed THEN @ \cup {phase[r]} ELSE @]
  /\ IF AutoAssignThrows(failed)
       THEN /\ Send(r, IF phase[r] = "auto" THEN VerifyCatch(0)
                       ELSE Reply(500, "Error in role assignment"))
            /\ UNCHANGED <<nextCalled, phase, rolesAtNext>>
       ELSE IF phase[r] = "auto"
         THEN /\ pc' = [pc EXCEPT ![r] = "route"]
              /\ nextCalled' = [nextCalled EXCEPT ![r] = @ + 1]
              /\ phase' = [phase EXCEPT ![r] = "handler"]
              /\ rolesAtNext' = [rolesAtNext EXCEPT ![r] = roles]
              /\ UNCHANGED res
         ELSE /\ Send(r, Reply(200, "Role assignment completed"))
              /\ UNCHANGED <<nextCalled, phase, rolesAtNext>>

AaReturn(r, failed) == AaReturnWith(r, failed, user[r].roles)

\* if (!roleToAssign) roleToAssign = 'user'
RoleOrDefault(x) == IF x = NoVal THEN "user" ELSE x

\* mutant: the check of line 168 is missing
NeverHasRole(roles, role) == FALSE

\* user.roles.includes(roleToAssign)
AlreadyHasRole(roles, role) == role \in Range(roles)

\* lines 164-172: default, then skip when the identity already lists the role
AaDecide(r, x) ==
  /\ roleToAssign' = [roleToAssign EXCEPT ![r] = RoleOrDefault(x)]
  /\ IF AlreadyHasRole(user[r].roles, RoleOrDefault(x))
       THEN AaReturn(r, FALSE)
       ELSE Stay(r, "aa_tok2")

\* lines 136-146
AaStart(r) ==
  /\ pc[r] = "aa_start"
  /\ IF CustomRoles(user[r].roles) # <<>>
       THEN AaReturn(r, FALSE) /\ UNCHANGED roleToAssign
       ELSE IF user[r].selectedRole # NoVal
         THEN AaDecide(r, user[r].selectedRole)
         ELSE Stay(r, "aa_tok1") /\ UNCHANGED roleToAssign
  /\ UNCHANGED <<header, token, user, log, route, param, body, gate, gatePassed,
                 toRemove, introspected, kcVars>>
  /\ UNCHANGED <<localVars, feVars>>

\* line 147: getKeycloakAdminToken()
AaTok1(r) ==
  /\ pc[r] = "aa_tok1"
  /\ \E ok \in BOOLEAN :
       /\ Logged(r, "adminToken", Ok(ok))
       /\ IF ok THEN Stay(r, "aa_attr") ELSE AaReturn(r, TRUE)
  /\ UNCHANGED <<header, token, user, roleToAssign, route, param, body, gate,
                 gatePassed, toRemove, introspected, kcVars>>
  /\ UNCHANGED <<localVars, feVars>>

\* lines 149-161: GET users/{id}; a failure is silent
AaAttr(r) ==
  /\ pc[r] = "aa_attr"
  /\ \E ok \in BOOLEAN :
       /\ Logged(r, "getUser", Answer(ok, user[r].id \in kcUsers, "404"))
       /\ AaDecide(r, IF ok /\ user[r].id \in kcUsers THEN userAttr[user[r].id] ELSE NoVal)
  /\ UNCHANGED <<header, token, user, route, param, body, gate, gatePassed,
                 toRemove, introspected, kcVars>>
  /\ UNCHANGED <<localVars, feVars>>

\* line 172: getKeycloakAdminToken()
AaTok2(r) ==
  /\ pc[r] = "aa_tok2"
  /\ \E ok \in BOOLEAN :
       /\ Logged(r, "adminToken", Ok(ok))
       /\ IF ok THEN Stay(r, "ar_get1") ELSE AaReturn(r, TRUE)
  /\ UNCHANGED <<header, token, user, roleToAssign, route, param, body, gate,
                 gatePassed, toRemove, introspected, kcVars>>
  /\ UNCHANGED <<localVars, feVars>>

(* --------------------------- assignRoleToUser -------------------------- *)
\* the provider's role-mapping endpoint: mappings are a set, so granting a
\* role the user already holds changes nothing
GrantRole(g, u, role) == [g EXCEPT ![u] = @ \cup {role}]

\* mutant: every failed lookup is taken for a missing role
AnyLookupError(answer) == answer # "ok"

\* roleError.response?.status === 404
IsNotFound(answer) == answer = "404"

\* lines 224-233, 255-257: the first GET roles/{name}
ArGet1(r) ==
  /\ pc[r] = "ar_get1"
  /\ \E ok \in BOOLEAN :
       LET answer == Answer(ok, roleToAssign[r] \in realmRoles, "404")
       IN /\ Logged(r, "getRole", answer)
          /\ IF answer = "ok" THEN Stay(r, "ar_grant")
             ELSE IF IsNotFound(answer) THEN Stay(r, "ar_create")
             ELSE AaReturn(r, TRUE)
  /\ UNCHANGED <<header, token, user, roleToAssign, route, param, body, gate,
                 gatePassed, toRemove, introspected, kcVars>>
  /\ UNCHANGED <<localVars, feVars>>

\* lines 234-246: POST roles; the provider answers 409 for an existing name
ArCreate(r) ==
  /\ pc[r] = "ar_create"
  /\ \E ok \in BOOLEAN :
       /\ Logged(r, "createRole", Answer(ok, roleToAssign[r] \notin realmRoles, "409"))
       /\ IF ok /\ roleToAssign[r] \notin realmRoles
            THEN /\ realmRoles' = realmRoles \cup {roleToAssign[r]}
                 /\ Stay(r, "ar_get2")
            ELSE /\ AaReturn(r, TRUE)
                 /\ UNCHANGED realmRoles
  /\ UNCHANGED <<header, token, user, roleToAssign, route, param, body, gate,
                 gatePassed, toRemove, introspected, grants, userAttr, kcUsers>>
  /\ UNCHANGED <<localVars, feVars>>

\* lines 248-254: the second GET roles/{name}
ArGet2(r) ==
  /\ pc[r] = "ar_get2"
  /\ \E ok \in BOOLEAN :
       /\ Logged(r, "getRole", Answer(ok, roleToAssign[r] \in realmRoles, "404"))
       /\ IF ok /\ roleToAssign[r] \in realmRoles
            THEN Stay(r, "ar_grant")
            ELSE AaReturn(r, TRUE)
  /\ UNCHANGED <<header, token, user, roleToAssign, route, param, body, gate,
                 gatePassed, toRemove, introspected, kcVars>>
  /\ UNCHANGED <<localVars, feVars>>

\* mutant: the identity of the request is not updated
PushNothing(roles, role) == roles

\* user.roles.push(roleToAssign)
PushRole(roles, role) == Append(roles, role)

\* mutant: the grant is not awaited, so its failure is not seen
AwaitSkipped(answer) == TRUE

\* await assignRoleToUser(...): the statements after it run only when the
\* call was answered with success; otherwise it throws
AwaitReturns(answer) == answer = "ok"

\* lines 260-269 and line 174: POST role-mappings, then user.roles.push
ArGrant(r) ==
  /\ pc[r] = "ar_grant"
  /\ \E ok \in BOOLEAN :
       LET answer == Answer(ok, user[r].id \in kcUsers, "404")
       IN /\ Logged(r, "grant", answer)
          /\ grants' = IF answer = "ok"
                         THEN GrantRole(grants, user[r].id, roleToAssign[r])
                         ELSE grants
          /\ IF AwaitReturns(answer)
               THEN /\ user' = [user EXCEPT ![r].roles = PushRole(@, roleToAssign[r])]
                    /\ AaReturnWith(r, FALSE, PushRole(user[r].roles, roleToAssign[r]))
               ELSE /\ AaReturn(r, TRUE)
                    /\ UNCHANGED user
  /\ UNCHANGED <<header, token, roleToAssign, route, param, body, gate,
                 gatePassed, toRemove, introspected, realmRoles, userAttr, kcUsers>>
  /\ UNCHANGED <<localVars, feVars>>

AutoAssign(r) ==
  \/ AaStart(r) \/ AaTok1(r) \/ AaAttr(r) \/ AaTok2(r)
  \/ ArGet1(r) \/ ArCreate(r) \/ ArGet2(r) \/ ArGrant(r)

(* ----------------------- getPermissionsFromRoles ----------------------- *)
UserPerms == {"read_profile", "update_own_profile"}
ModeratorPerms == {"view_stats", "moderate_content", "view_user_list"}
AdminPerms == {"manage_users", "delete_users", "system_config", "view_admin_panel"}
Permissions == UserPerms \cup ModeratorPerms \cup AdminPerms

\* mutant: an empty role list yields the baseline permission
GetPermissionsWithBaseline(roles) ==
  IF roles = <<>> THEN {"read_profile"}
  ELSE (IF "user" \in Range(roles) THEN UserPerms ELSE {}) \cup
       (IF "moderator" \in Range(roles) THEN ModeratorPerms ELSE {}) \cup
       (IF "admin" \in Range(roles) THEN AdminPerms ELSE {})

GetPermissionsFromRoles(roles) ==
  (IF "user" \in Range(roles) THEN UserPerms ELSE {}) \cup
  (IF "moderator" \in Range(roles) THEN ModeratorPerms ELSE {}) \cup
  (IF "admin" \in Range(roles) THEN AdminPerms ELSE {})

\* getUserPermissions(user): getPermissionsFromRoles(user.roles || [])
GetUserPermissions(u) == GetPermissionsFromRoles(u.roles)

(* --------------------- requireRole, requirePermission ------------------ *)
RoleGate(rs) == [kind |-> "role", single |-> NoVal, roles |-> rs, perm |-> NoVal]
RoleGateStr(x) == [kind |-> "role", single |-> x, roles |-> <<>>, perm |-> NoVal]
PermGate(p) == [kind |-> "perm", single |-> NoVal, roles |-> <<>>, perm |-> p]

\* if (typeof roles === 'string') roles = [roles]
NormalizeRoles(g) == IF g.single # NoVal THEN <<g.single>> ELSE g.roles

\* mutant: every instead of some
HasEveryRequiredRole(required, userRoles) ==
  \A i \in 1..Len(required) : required[i] \in Range(userRoles)

\* roles.some(role => userRoles.includes(role))
HasRequiredRole(required, userRoles) ==
  \E i \in 1..Len(required) : required[i] \in Range(userRoles)

\* what requireRole(roles) answers for req.user = u (NoRes: it calls next)
RequireRole(required, u) ==
  IF u.id = NoVal THEN Reply(401, "Authentication required.")
  ELSE IF ~HasRequiredRole(required, u.roles)
    THEN Reply(403, "Access denied. Required roles: " \o Join(required, ", ")
                     \o ". Your roles: " \o Join(u.roles, ", "))
  ELSE NoRes

\* what requirePermission(permission) answers (NoRes: it calls next)
RequirePermission(p, u) ==
  IF u.id = NoVal THEN Reply(401, "Authentication required.")
  ELSE IF p \notin GetPermissionsFromRoles(u.roles)
    THEN Reply(403, "Access denied. Required permission: " \o p)
  ELSE NoRes

\* a guard runs: it answers, or calls next and the handler is reached
GateStep(r, answer) ==
  /\ IF answer = NoRes
       THEN /\ pc' = [pc EXCEPT ![r] = "handler"]
            /\ gatePassed' = [gatePassed EXCEPT ![r] = TRUE]
            /\ UNCHANGED res
       ELSE /\ Send(r, answer)
            /\ UNCHANGED gatePassed
  /\ UNCHANGED <<header, token, user, nextCalled, log, phase, aaFailed,
                 roleToAssign, route, param, body, gate, toRemove, rolesAtNext,
                 introspected, kcVars>>
  /\ UNCHANGED <<localVars, feVars>>

RequireRoleStep(r) ==
  /\ pc[r] = "gate" /\ gate[r].kind = "role"
  /\ GateStep(r, RequireRole(NormalizeRoles(gate[r]), user[r]))

RequirePermissionStep(r) ==
  /\ pc[r] = "gate" /\ gate[r].kind = "perm"
  /\ GateStep(r, RequirePermission(gate[r].perm, user[r]))

(* ------------------------------- routes -------------------------------- *)
\* routes/user.js: the guard mounted in front of each handler
RouteGate(rt) ==
  IF rt \in {"putRole", "deleteUser"} THEN RoleGate(<<"admin">>) ELSE NoGate

Routes == {"profile", "putRole", "deleteUser", "assignRole"}

\* next() of the verifier: the route's guard, or its handler, is entered
RouteWith(r, rts) ==
  /\ pc[r] = "route"
  /\ \E rt \in rts :
       /\ route' = [route EXCEPT ![r] = rt]
       /\ gate' = [gate EXCEPT ![r] = RouteGate(rt)]
       /\ pc' = [pc EXCEPT ![r] = IF RouteGate(rt) = NoGate THEN "handler" ELSE "gate"]
       /\ \E u \in Users :
            param' = [param EXCEPT ![r] = IF rt \in {"putRole", "deleteUser"} THEN u ELSE NoVal]
       /\ \E b \in RoleNames :
            body' = [body EXCEPT ![r] = IF rt \in {"putRole", "selectRole"} THEN b ELSE NoVal]
  /\ UNCHANGED <<header, token, user, res, nextCalled, log, phase, aaFailed,
                 roleToAssign, gatePassed, toRemove, rolesAtNext, introspected,
                 kcVars>>
  /\ UNCHANGED <<localVars, feVars>>

Route(r) == RouteWith(r, Routes)

(* ------------------------------ handlers -------------------------------- *)
ValidRole(b) == b \in Recognized

\* POST /select-role: the two validations, then the success answer (the
\* assignment itself is a TODO in the handler: no call is made)
SelectRole(role, u) ==
  IF ~ValidRole(role)
    THEN Reply(400, "Invalid role. Must be user, moderator, or admin.")
  ELSE IF CustomRoles(u.roles) # <<>>
    THEN Reply(400, "User already has a role assigned. Contact administrator to change roles.")
  ELSE Reply(200, "Role '" \o role \o "' assigned successfully")

\* the synchronous start of each handler of routes/user.js
HandlerStart(r) ==
  /\ pc[r] = "handler"
  /\ CASE route[r] = "profile" ->
            /\ Send(r, [Reply(200, "Profile data retrieved successfully")
                          EXCEPT !.permissions = GetUserPermissions(user[r])])
            /\ UNCHANGED phase
       [] route[r] = "putRole" ->
            IF ~ValidRole(body[r])
              THEN /\ Send(r, Reply(400, "Invalid role. Must be user, moderator, or admin."))
                   /\ UNCHANGED phase
              ELSE /\ pc' = [pc EXCEPT ![r] = "put_tok"]
                   /\ UNCHANGED <<res, phase>>
       [] route[r] = "deleteUser" ->
            /\ pc' = [pc EXCEPT ![r] = "del_tok"]
            /\ UNCHANGED <<res, phase>>
       [] route[r] = "assignRole" ->
            IF CustomRoles(user[r].roles) = <<>> /\ user[r].selectedRole # NoVal
              THEN /\ pc' = [pc EXCEPT ![r] = "aa_start"]
                   /\ phase' = [phase EXCEPT ![r] = "auto2"]
                   /\ UNCHANGED res
              ELSE /\ Send(r, Reply(200, "User already has roles assigned"))
                   /\ UNCHANGED phase
       [] route[r] = "selectRole" ->
            /\ Send(r, SelectRole(body[r], user[r]))
            /\ UNCHANGED phase
  /\ UNCHANGED <<header, token, user, nextCalled, log, aaFailed, roleToAssign,
                 route, param, body, gate, gatePassed, toRemove, rolesAtNext,
                 introspected, kcVars>>
  /\ UNCHANGED <<localVars, feVars>>

\* an awaited call of a handler failed: its catch block answers 500
HandlerCatch(r, msg) ==
  /\ Send(r, Reply(500, msg))

\* the rest of an action of a handler that touches only pc and res
HandlerFrame ==
  UNCHANGED <<header, token, user, nextCalled, phase, aaFailed, roleToAssign,
              route, param, body, gate, gatePassed, rolesAtNext, introspected>>

\* PUT /admin/users/:userId/role, line 132
PutTok(r) ==
  /\ pc[r] = "put_tok"
  /\ \E ok \in BOOLEAN :
       /\ Logged(r, "adminToken", Ok(ok))
       /\ IF ok THEN pc' = [pc EXCEPT ![r] = "put_getmap"] /\ UNCHANGED res
          ELSE HandlerCatch(r, "Error updating user role")
  /\ HandlerFrame /\ UNCHANGED <<toRemove, kcVars>>
  /\ UNCHANGED <<localVars, feVars>>

\* lines 134-145: GET role-mappings, filter the recognized ones
PutGetMappings(r) ==
  /\ pc[r] = "put_getmap"
  /\ \E ok \in BOOLEAN :
       /\ Logged(r, "getMappings", Answer(ok, param[r] \in kcUsers, "404"))
       /\ IF ok /\ param[r] \in kcUsers
            THEN /\ toRemove' = [toRemove EXCEPT ![r] = grants[param[r]] \cap Recognized]
                 /\ pc' = [pc EXCEPT ![r] =
                             IF toRemove'[r] # {} THEN "put_del" ELSE "put_getrole"]
                 /\ UNCHANGED res
            ELSE /\ HandlerCatch(r, "Error updating user role")
                 /\ UNCHANGED toRemove
  /\ HandlerFrame /\ UNCHANGED kcVars
  /\ UNCHANGED <<localVars, feVars>>

\* lines 146-155: DELETE role-mappings with the roles to remove
PutDeleteMappings(r) ==
  /\ pc[r] = "put_del"
  /\ \E ok \in BOOLEAN :
       /\ Logged(r, "deleteMappings", Answer(ok, param[r] \in kcUsers, "404"))
       /\ IF ok /\ param[r] \in kcUsers
            THEN /\ grants' = [grants EXCEPT ![param[r]] = @ \ toRemove[r]]
                 /\ pc' = [pc EXCEPT ![r] = "put_getrole"]
                 /\ UNCHANGED res
            ELSE /\ HandlerCatch(r, "Error updating user role")
                 /\ UNCHANGED grants
  /\ HandlerFrame /\ UNCHANGED <<toRemove, realmRoles, userAttr, kcUsers>>
  /\ UNCHANGED <<localVars, feVars>>

\* lines 158-165: GET roles/{role}
PutGetRole(r) ==
  /\ pc[r] = "put_getrole"
  /\ \E ok \in BOOLEAN :
       /\ Logged(r, "getRole", Answer(ok, body[r] \in realmRoles, "404"))
       /\ IF ok /\ body[r] \in realmRoles
            THEN pc' = [pc EXCEPT ![r] = "put_grant"] /\ UNCHANGED res
            ELSE HandlerCatch(r, "Error updating user role")
  /\ HandlerFrame /\ UNCHANGED <<toRemove, kcVars>>
  /\ UNCHANGED <<localVars, feVars>>

\* lines 167-182: POST role-mappings, then the success answer
PutGrant(r) ==
  /\ pc[r] = "put_grant"
  /\ \E ok \in BOOLEAN :
       /\ Logged(r, "grant", Answer(ok, param[r] \in kcUsers, "404"))
       /\ IF ok /\ param[r] \in kcUsers
            THEN /\ grants' = GrantRole(grants, param[r], body[r])
                 /\ Send(r, Reply(200, "User role updated to " \o body[r] \o " successfully"))
            ELSE /\ HandlerCatch(r, "Error updating user role")
                 /\ UNCHANGED grants
  /\ HandlerFrame /\ UNCHANGED <<toRemove, realmRoles, userAttr, kcUsers>>
  /\ UNCHANGED <<localVars, feVars>>

\* DELETE /admin/users/:userId, line 196
DelTok(r) ==
  /\ pc[r] = "del_tok"
  /\ \E ok \in BOOLEAN :
       /\ Logged(r, "adminToken", Ok(ok))
       /\ IF ok THEN pc' = [pc EXCEPT ![r] = "del_user"] /\ UNCHANGED res
          ELSE HandlerCatch(r, "Error deleting user")
  /\ HandlerFrame /\ UNCHANGED <<toRemove, kcVars>>
  /\ UNCHANGED <<localVars, feVars>>

\* lines 198-208: DELETE users/{userId}; the user's mappings go with it
DelUser(r) ==
  /\ pc[r] = "del_user"
  /\ \E ok \in BOOLEAN :
       /\ Logged(r, "deleteUser", Answer(ok, param[r] \in kcUsers, "404"))
       /\ IF ok /\ param[r] \in kcUsers
            THEN /\ kcUsers' = kcUsers \ {param[r]}
                 /\ grants' = [grants EXCEPT ![param[r]] = {}]
                 /\ Send(r, Reply(200, "User deleted successfully"))
            ELSE /\ HandlerCatch(r, "Error deleting user")
                 /\ UNCHANGED <<kcUsers, grants>>
  /\ HandlerFrame /\ UNCHANGED <<toRemove, realmRoles, userAttr>>
  /\ UNCHANGED <<localVars, feVars>>

Handler(r) ==
  \/ HandlerStart(r)
  \/ PutTok(r) \/ PutGetMappings(r) \/ PutDeleteMappings(r) \/ PutGetRole(r)
  \/ PutGrant(r) \/ DelTok(r) \/ DelUser(r)

(* ---------------------------- specifications --------------------------- *)
\* one request through the Keycloak pipeline, every input and every
\* provider answer free
Pipeline(r) ==
  \/ Start(r) \/ VerifyExtract(r) \/ Introspect(r)
  \/ AutoAssign(r)
  \/ Route(r) \/ RequireRoleStep(r)
  \/ Handler(r)

Next == Pipeline(1)

Spec == Init /\ [][Next]_vars

\* one request to POST /select-role
NextSelect ==
  \/ Start(1) \/ VerifyExtract(1) \/ Introspect(1)
  \/ AutoAssign(1)
  \/ RouteWith(1, {"selectRole"})
  \/ HandlerStart(1)

SpecSelect == Init /\ [][NextSelect]_vars

\* the guards applied to every identity and every argument within the bounds
GateUsers ==
  {NoUser} \cup
  {[id |-> "u1", roles |-> rs, selectedRole |-> NoVal] :
     rs \in SeqsUpTo(RoleNames, MaxRoles)}
Gates ==
  {RoleGate(rs) : rs \in SeqsUpTo(RoleNames, MaxRoles)} \cup
  {RoleGateStr(x) : x \in RoleNames} \cup
  {PermGate(p) : p \in Permissions \cup {"other_permission"}}

InitGate ==
  /\ InitKc /\ IdleLocal /\ IdleFrontend /\ store = {}
  /\ pc = [r \in Reqs |-> IF r = 1 THEN "gate" ELSE "idle"]
  /\ user \in {[r \in Reqs |-> IF r = 1 THEN u ELSE NoUser] : u \in GateUsers}
  /\ gate \in {[r \in Reqs |-> IF r = 1 THEN g ELSE NoGate] : g \in Gates}
  /\ header = [r \in Reqs |-> NoHeader]
  /\ token = [r \in Reqs |-> <<>>]
  /\ res = [r \in Reqs |-> NoRes]
  /\ nextCalled = [r \in Reqs |-> 0]
  /\ log = [r \in Reqs |-> <<>>]
  /\ phase = [r \in Reqs |-> "handler"]
  /\ aaFailed = [r \in Reqs |-> {}]
  /\ roleToAssign = [r \in Reqs |-> NoVal]
  /\ route = [r \in Reqs |-> NoVal]
  /\ param = [r \in Reqs |-> NoVal]
  /\ body = [r \in Reqs |-> NoVal]
  /\ gatePassed = [r \in Reqs |-> FALSE]
  /\ toRemove = [r \in Reqs |-> {}]
  /\ rolesAtNext = [r \in Reqs |-> <<>>]
  /\ introspected = [r \in Reqs |-> NoVal]

NextGate == RequireRoleStep(1) \/ RequirePermissionStep(1)

SpecGate == InitGate /\ [][NextGate]_vars

\* concurrent requests of one identity that the provider has never given a
\* role: no role in the token, no selected role, no stored attribute
NewIdentity == [id |-> "u2", roles |-> <<>>, selectedRole |-> NoVal]
BearerJwt == [present |-> TRUE, chunks |-> <<BearerPrefix, "jwt">>]

InitConc ==
  /\ IdleReqs /\ IdleLocal /\ IdleFrontend /\ store = {}
  /\ realmRoles \in {Recognized, {"admin"}}
  /\ grants = InitGrants
  /\ userAttr = [u \in Users |-> NoVal]
  /\ kcUsers = Users

NextConc ==
  \E r \in Reqs :
    \/ StartWith(r, {BearerJwt}) \/ VerifyExtract(r)
    \/ IntrospectWith(r, {NewIdentity})
    \/ AutoAssign(r)
    \/ RouteWith(r, {"profile"}) \/ HandlerStart(r)

SpecConc == InitConc /\ [][NextConc]_vars

\* two requests at once: the administrator's, and one of a user whose token
\* was issued while the provider held no role mapping for it; each runs the
\* verifier with its autoAssignRole and then reads its profile or updates a
\* user's role
AdminIdentity == [id |-> "u1", roles |-> <<"admin">>, selectedRole |-> NoVal]
MixIdentities ==
  {AdminIdentity, NewIdentity, [NewIdentity EXCEPT !.selectedRole = "moderator"]}

InitMix == InitConc

NextMix ==
  \E r \in {1, 2} :
    \/ StartWith(r, {BearerJwt}) \/ VerifyExtract(r)
    \/ IntrospectWith(r, MixIdentities)
    \/ AutoAssign(r)
    \/ RouteWith(r, {"profile", "putRole"}) \/ RequireRoleStep(r)
    \/ HandlerStart(r)
    \/ PutTok(r) \/ PutGetMappings(r) \/ PutDeleteMappings(r) \/ PutGetRole(r)
    \/ PutGrant(r)

SpecMix == InitMix /\ [][NextMix]_vars

(* ---------------------- authenticateToken (local) ----------------------- *)
\* "jwt" is a token this server signed that has not expired, "expired" one
\* it signed that has, "forged" one with another signature
LocalChunks == {BearerPrefix, "jwt", "expired", "forged", "Basic "}
LocalHeaders ==
  {NoHeader} \cup
  {[present |-> TRUE, chunks |-> c] : c \in SeqsUpTo(LocalChunks, MaxHeaderLen)}

\* authHeader && authHeader.startsWith('Bearer ') ? authHeader.substring(7) : null
\* (<<>> is null or '')
LocalExtractToken(h) ==
  IF h.present /\ h.chunks # <<>> /\ Head(h.chunks) = BearerPrefix
    THEN Tail(h.chunks) ELSE <<>>

\* mutant: jwt.verify with ignoreExpiration
JwtVerifyIgnoreExpiration(t) ==
  IF t \in {<<"jwt">>, <<"expired">>} THEN "ok" ELSE "JsonWebTokenError"

\* jwt.verify(token, JWT_SECRET): the answer for a token
JwtVerify(t) ==
  IF t = <<"jwt">> THEN "ok"
  ELSE IF t = <<"expired">> THEN "TokenExpiredError"
  ELSE "JsonWebTokenError"

remoteOnly == <<user, phase, aaFailed, roleToAssign, route, param, body, gate,
                gatePassed, toRemove, rolesAtNext, introspected>>

\* a request arrives at a route behind authenticateToken with a header of hs
LocalStartWith(r, hs) ==
  /\ pc[r] = "idle"
  /\ \E h \in hs : header' = [header EXCEPT ![r] = h]
  /\ pc' = [pc EXCEPT ![r] = "l_auth"]
  /\ UNCHANGED <<token, res, nextCalled, log, remoteOnly, kcVars, localVars, feVars>>

LocalStart(r) == LocalStartWith(r, LocalHeaders)

\* the catch block of authenticateToken
LocalCatch == Reply(401, "Invalid token")

\* mutant: a missing record gets an answer of its own
UserNotFoundReply == Reply(404, "User not found")

\* if (!user) return res.status(401).json({ message: 'Invalid token' })
UserMissingReply == Reply(401, "Invalid token")

\* lines 1493-1503: the header, the token, jwt.verify
LocalAuthenticate(r) ==
  /\ pc[r] = "l_auth"
  /\ token' = [token EXCEPT ![r] = LocalExtractToken(header[r])]
  /\ IF token'[r] = <<>>
       THEN /\ Send(r, Reply(401, "Access token is required"))
            /\ UNCHANGED <<log, decoded>>
       ELSE /\ Logged(r, "jwtVerify", JwtVerify(token'[r]))
            /\ IF JwtVerify(token'[r]) = "ok"
                 THEN /\ \E id \in LocalIds : decoded' = [decoded EXCEPT ![r] = id]
                      /\ pc' = [pc EXCEPT ![r] = "l_find"]
                      /\ UNCHANGED res
                 ELSE /\ Send(r, LocalCatch)
                      /\ UNCHANGED decoded
  /\ UNCHANGED <<header, nextCalled, remoteOnly, kcVars, feVars, store, luser, regBody>>

\* lines 1505-1516: User.findById, then next() or the 401 answers
\* .select('-password')
WithoutPassword(u) ==
  [id |-> u.id, username |-> u.username, email |-> u.email, role |-> u.role]

LocalFind(r) ==
  /\ pc[r] = "l_find"
  /\ \E ok \in BOOLEAN :
       LET found == {u \in store : u.id = decoded[r]}
       IN /\ Logged(r, "findById", Answer(ok, found # {}, "null"))
          /\ IF ok /\ found # {}
               THEN /\ luser' = [luser EXCEPT ![r] = WithoutPassword(CHOOSE u \in found : TRUE)]
                    /\ nextCalled' = [nextCalled EXCEPT ![r] = @ + 1]
                    /\ pc' = [pc EXCEPT ![r] = "l_next"]
                    /\ UNCHANGED res
               ELSE /\ Send(r, IF ok THEN UserMissingReply ELSE LocalCatch)
                    /\ UNCHANGED <<luser, nextCalled>>
  /\ UNCHANGED <<header, token, remoteOnly, kcVars, feVars, store, decoded, regBody>>

InitLocal ==
  /\ IdleReqs /\ InitKc /\ IdleLocal /\ IdleFrontend
  /\ store \in SUBSET SeedRecords

NextLocal == LocalStart(1) \/ LocalAuthenticate(1) \/ LocalFind(1)

SpecLocal == InitLocal /\ [][NextLocal]_vars

\* two requests of the local scheme side by side, each with a token this
\* server signed or with a forged one
PairHeaders ==
  {[present |-> TRUE, chunks |-> <<BearerPrefix, t>>] : t \in {"jwt", "forged"}}

NextLocalPair ==
  \E r \in {1, 2} :
    LocalStartWith(r, PairHeaders) \/ LocalAuthenticate(r) \/ LocalFind(r)

SpecLocalPair == InitLocal /\ [][NextLocalPair]_vars

(* ------------------------- POST /api/auth/register ---------------------- *)
\* String.prototype.trim and toLowerCase on the texts a registration can carry
Trim(x) == IF x = "carol " THEN "carol" ELSE x
Lower(x) == IF x = "Carol@example.com" THEN "carol@example.com" ELSE x

RegBodies ==
  [username : {NoVal, "bob", "carol", "carol "},
   email : {NoVal, "bob@example.com", "carol@example.com", "Carol@example.com"},
   password : {NoVal, "secret"},
   role : {NoVal, "admin", "guest"}]

\* the ObjectId of the document a request creates
NewIds == <<"a3", "a4", "a5">>

\* new User({...}): the schema's setters (trim, lowercase) and the role default
NewUser(r, b) ==
  [id |-> NewIds[r], username |-> Trim(b.username), email |-> Lower(b.email),
   password |-> Hash(b.password),
   role |-> IF b.role = NoVal THEN "user" ELSE b.role]

\* User.findOne({ $or: [{ email }, { username }] })
FindOne(recs, email, username) ==
  {u \in recs : u.email = email \/ u.username = username}

\* mutant: the schema declares no unique index
NoUniqueIndex(recs, doc) == FALSE

\* unique: true on username and on email: the collection's unique indexes
\* refuse a document that repeats either
UniqueIndexRejects(recs, doc) ==
  \E u \in recs : u.username = doc.username \/ u.email = doc.email

\* mutant: the role of the body is not validated
NoRoleCheck(role) == FALSE

\* if (role && !validRoles.includes(role))
InvalidRole(role) == role # NoVal /\ role \notin Recognized

\* lines 35-43: the body is read, missing fields are refused
RegStart(r) ==
  /\ pc[r] = "idle"
  /\ \E b \in RegBodies :
       /\ regBody' = [regBody EXCEPT ![r] = b]
       /\ IF b.username = NoVal \/ b.email = NoVal \/ b.password = NoVal
            THEN Send(r, Reply(400, "All fields are required"))
            ELSE pc' = [pc EXCEPT ![r] = "reg_find"] /\ UNCHANGED res
  /\ UNCHANGED <<header, token, nextCalled, log, remoteOnly, kcVars, feVars, store,
                 decoded, luser>>

\* lines 49-67: the duplicate lookup, then the role validation; the query is
\* cast with or without the schema's setters, depending on the mongoose build
RegFind(r) ==
  /\ pc[r] = "reg_find"
  /\ \E ok \in BOOLEAN, cast \in BOOLEAN :
       LET b == regBody[r]
           existing == IF cast THEN FindOne(store, Lower(b.email), Trim(b.username))
                       ELSE FindOne(store, b.email, b.username)
       IN /\ Logged(r, "findOne", Answer(ok, existing # {}, "null"))
          /\ IF ~ok THEN Send(r, Reply(500, "Server error"))
             ELSE IF existing # {}
               THEN Send(r, Reply(400, "User with this email or username already exists"))
             ELSE IF InvalidRole(b.role)
               THEN Send(r, Reply(400, "Invalid role. Allowed roles are: user, admin, moderator"))
             ELSE pc' = [pc EXCEPT ![r] = "reg_save"] /\ UNCHANGED res
  /\ UNCHANGED <<header, token, nextCalled, remoteOnly, kcVars, localVars, feVars>>

\* lines 73-109: user.save(), then the 201 answer, or the catch block
RegSave(r) ==
  /\ pc[r] = "reg_save"
  /\ \E ok \in BOOLEAN :
       LET doc == NewUser(r, regBody[r])
           saved == ok /\ ~UniqueIndexRejects(store, doc)
       IN /\ Logged(r, "save", Answer(ok, ~UniqueIndexRejects(store, doc), "E11000"))
          /\ store' = IF saved THEN store \cup {doc} ELSE store
          /\ Send(r, IF saved THEN Reply(201, "User registered successfully")
                     ELSE Reply(500, "Server error"))
  /\ UNCHANGED <<header, token, nextCalled, remoteOnly, kcVars, feVars, decoded, luser,
                 regBody>>

\* two registrations at once, on an empty collection or on the seeded one
InitReg ==
  /\ IdleReqs /\ IdleLocal /\ IdleFrontend
  /\ realmRoles = Recognized /\ grants = InitGrants
  /\ userAttr = [u \in Users |-> NoVal] /\ kcUsers = Users
  /\ store \in {{}, SeedRecords}

NextReg == \E r \in {1, 2} : RegStart(r) \/ RegFind(r) \/ RegSave(r)

SpecReg == InitReg /\ [][NextReg]_vars

(* --------------------------- POST /api/auth/login ----------------------- *)
\* "#12345" is the JSON number 12345; every other text is a JSON string
TypeOf(x) == IF x = "#12345" THEN "number" ELSE "string"

LoginBodies ==
  [username : {NoVal},
   email : {NoVal, "alice@example.com", "nobody@example.com"},
   password : {NoVal, "secret", "wrong", "#12345"},
   role : {NoVal}]

\* jwt.sign({ userId }, JWT_SECRET, { expiresIn: '7d' }): the claims signed
GenerateToken(userId) == [userId |-> userId]

\* userSchema.methods.comparePassword: bcrypt.compare(candidate, this.password)
\* rejects ("Illegal arguments") when the candidate is not a string
ComparePassword(u, candidate) ==
  IF TypeOf(candidate) # "string" THEN "Illegal arguments"
  ELSE IF Hash(candidate) = u.password THEN "true" ELSE "false"

InvalidCredentials == Reply(401, "Invalid credentials")

\* res.json({ message: 'Login successful', token, user: {...} })
LoginSuccessful(u) ==
  [status |-> 200, message |-> "Login successful", token |-> GenerateToken(u.id),
   user |-> WithoutPassword(u)]

\* lines 120-128: the body is read, a missing email or password is refused
LoginStart(r) ==
  /\ pc[r] = "idle"
  /\ \E b \in LoginBodies :
       /\ regBody' = [regBody EXCEPT ![r] = b]
       /\ IF b.email = NoVal \/ b.password = NoVal
            THEN Send(r, Reply(400, "Email and password are required"))
            ELSE pc' = [pc EXCEPT ![r] = "login_find"] /\ UNCHANGED res
  /\ UNCHANGED <<header, token, nextCalled, log, remoteOnly, kcVars, feVars, store,
                 decoded, luser>>

\* lines 132-142: User.findOne({ email }); luser holds the handler's `user`
LoginFind(r) ==
  /\ pc[r] = "login_find"
  /\ \E ok \in BOOLEAN :
       LET found == {u \in store : u.email = regBody[r].email}
       IN /\ Logged(r, "login.findOne", Answer(ok, found # {}, "null"))
          /\ IF ok /\ found # {}
               THEN /\ luser' = [luser EXCEPT ![r] = CHOOSE u \in found : TRUE]
                    /\ pc' = [pc EXCEPT ![r] = "login_compare"]
                    /\ UNCHANGED res
               ELSE /\ Send(r, IF ok THEN InvalidCredentials
                               ELSE Reply(500, "Server error"))
                    /\ UNCHANGED luser
  /\ UNCHANGED <<header, token, nextCalled, remoteOnly, kcVars, feVars, store, decoded,
                 regBody>>

\* lines 147-181: comparePassword, then the token and the answer, or the catch
LoginCompare(r) ==
  /\ pc[r] = "login_compare"
  /\ LET valid == ComparePassword(luser[r], regBody[r].password)
     IN /\ Logged(r, "comparePassword", valid)
        /\ Send(r, IF valid = "true" THEN LoginSuccessful(luser[r])
                   ELSE IF valid = "false" THEN InvalidCredentials
                   ELSE Reply(500, "Server error"))
  /\ UNCHANGED <<header, token, nextCalled, remoteOnly, kcVars, localVars, feVars>>

(* ---------------------------- authorize (local) ------------------------- *)
\* authorize(roles): the lists a route can be guarded with; requireAdmin,
\* requireModerator and requireAuth are among them
AuthorizeGate(rs) == [kind |-> "authorize", single |-> NoVal, roles |-> rs, perm |-> NoVal]
AuthorizeLists == SeqsUpTo(Recognized, MaxRoles)

\* mutant: the role of the user is not looked at
AnyRoleAllowed(roles, u) == TRUE

\* !(roles.length && !roles.includes(req.user.role))
RoleAllowed(roles, u) == Len(roles) = 0 \/ u.role \in Range(roles)

\* the guard returned by authorize(roles); NoRes stands for next()
Authorize(roles, u) ==
  IF u = NoLocalUser THEN Reply(401, "Authentication required")
  ELSE IF ~RoleAllowed(roles, u)
    THEN Reply(403, "Access denied. Required role: " \o Join(roles, " or "))
  ELSE NoRes

\* a request arrives at a route whose first middleware is authorize(roles)
LocalUnguarded(r) ==
  /\ pc[r] = "idle"
  /\ pc' = [pc EXCEPT ![r] = "l_next"]
  /\ UNCHANGED <<header, token, res, nextCalled, log, remoteOnly, kcVars, localVars, feVars>>

\* the guard runs after authenticateToken called next, or first on its route
AuthorizeStep(r) ==
  /\ pc[r] = "l_next" /\ gate[r] = NoGate
  /\ \E rs \in AuthorizeLists :
       /\ gate' = [gate EXCEPT ![r] = AuthorizeGate(rs)]
       /\ IF Authorize(rs, luser[r]) = NoRes
            THEN /\ pc' = [pc EXCEPT ![r] = "l_handler"]
                 /\ gatePassed' = [gatePassed EXCEPT ![r] = TRUE]
                 /\ nextCalled' = [nextCalled EXCEPT ![r] = @ + 1]
                 /\ UNCHANGED res
            ELSE /\ Send(r, Authorize(rs, luser[r]))
                 /\ UNCHANGED <<gatePassed, nextCalled>>
  /\ UNCHANGED <<header, token, log, user, phase, aaFailed, roleToAssign, route,
                 param, body, toRemove, rolesAtNext, introspected>>
  /\ UNCHANGED <<kcVars, localVars, feVars>>

\* one request through the guards of the local scheme
NextAuthorize ==
  \/ LocalStartWith(1, PairHeaders) \/ LocalAuthenticate(1) \/ LocalFind(1)
  \/ LocalUnguarded(1) \/ AuthorizeStep(1)

InitAuthorize ==
  /\ IdleReqs /\ InitKc /\ IdleLocal /\ IdleFrontend
  /\ store \in SUBSET (SeedRecords \cup
         {[id |-> "a2", username |-> "bob", email |-> "bob@example.com",
           password |-> Hash("secret"), role |-> "moderator"]})

SpecAuthorize == InitAuthorize /\ [][NextAuthorize]_vars

\* two requests of the local scheme side by side: registrations, logins and
\* guarded routes
NextLocalAll ==
  \E r \in {1, 2} :
    \/ RegStart(r) \/ RegFind(r) \/ RegSave(r)
    \/ LoginStart(r) \/ LoginFind(r) \/ LoginCompare(r)
    \/ LocalStartWith(r, PairHeaders) \/ LocalAuthenticate(r) \/ LocalFind(r)
    \/ AuthorizeStep(r)

SpecLocalAll == InitReg /\ [][NextLocalAll]_vars

(* ------------------------- frontend: Home.jsx --------------------------- *)
\* getPermissionsFromRoles of Home.jsx: the array it returns
HomeGetPermissionsFromRoles(roles) ==
  IF roles = <<>> THEN <<"read_profile">>
  ELSE (IF "user" \in Range(roles)
          THEN <<"read_profile", "update_own_profile">> ELSE <<>>) \o
       (IF "moderator" \in Range(roles)
          THEN <<"view_stats", "moderate_content", "view_user_list">> ELSE <<>>) \o
       (IF "admin" \in Range(roles)
          THEN <<"manage_users", "delete_users", "system_config", "view_admin_panel">>
          ELSE <<>>)

\* Home renders the profile tab: the permissions of the roles in its state
HomeRender ==
  /\ uiPermissions = NoPermissions
  /\ uiPermissions' = HomeGetPermissionsFromRoles(userRolesState)
  /\ UNCHANGED <<reqVars, kcVars, localVars, keycloak, userRolesState, retryCount, fePc>>

\* the frontend and a permission guard of the backend on the same roles
PermGates == {PermGate(p) : p \in Permissions \cup {"other_permission"}}

InitPerms ==
  /\ InitKc /\ IdleLocal /\ store = {}
  /\ pc = [r \in Reqs |-> IF r = 1 THEN "gate" ELSE "idle"]
  /\ user \in {[r \in Reqs |-> IF r = 1 THEN u ELSE NoUser] : u \in GateUsers \ {NoUser}}
  /\ gate \in {[r \in Reqs |-> IF r = 1 THEN g ELSE NoGate] : g \in PermGates}
  /\ header = [r \in Reqs |-> NoHeader]
  /\ token = [r \in Reqs |-> <<>>]
  /\ res = [r \in Reqs |-> NoRes]
  /\ nextCalled = [r \in Reqs |-> 0]
  /\ log = [r \in Reqs |-> <<>>]
  /\ phase = [r \in Reqs |-> "handler"]
  /\ aaFailed = [r \in Reqs |-> {}]
  /\ roleToAssign = [r \in Reqs |-> NoVal]
  /\ route = [r \in Reqs |-> NoVal]
  /\ param = [r \in Reqs |-> NoVal]
  /\ body = [r \in Reqs |-> NoVal]
  /\ gatePassed = [r \in Reqs |-> FALSE]
  /\ toRemove = [r \in Reqs |-> {}]
  /\ rolesAtNext = [r \in Reqs |-> <<>>]
  /\ introspected = [r \in Reqs |-> NoVal]
  /\ keycloak = [authenticated |-> TRUE, token |-> TRUE, roles |-> user[1].roles]
  /\ userRolesState = user[1].roles
  /\ retryCount = 0 /\ fePc = "stopped"
  /\ uiPermissions = NoPermissions

NextPerms == RequirePermissionStep(1) \/ HomeRender

SpecPerms == InitPerms /\ [][NextPerms]_vars

(* -------------------- frontend: KeycloakContext.jsx --------------------- *)
\* the identity signed in at the browser
FeUser == "u2"

\* realm_access.roles of a token the provider issues: the user's mappings
RECURSIVE TokenRoles(_)
TokenRoles(S) ==
  IF S = {} THEN <<>>
  ELSE LET x == CHOOSE y \in S : TRUE IN <<x>> \o TokenRoles(S \ {x})

SignedOut == [authenticated |-> FALSE, token |-> FALSE, roles |-> <<>>]
FeFrame == UNCHANGED <<reqVars, localVars, uiPermissions>>

\* initKeycloak, lines 33-47: keycloak.init, then loadUserRoles() when the
\* browser holds a session
FeMount ==
  /\ fePc = "idle"
  /\ \E authenticated \in BOOLEAN :
       IF authenticated
         THEN /\ keycloak' = [authenticated |-> TRUE, token |-> TRUE,
                              roles |-> TokenRoles(grants[FeUser])]
              /\ fePc' = "load"
         ELSE /\ keycloak' = SignedOut
              /\ fePc' = "stopped"
  /\ retryCount' = 0
  /\ FeFrame /\ UNCHANGED <<kcVars, userRolesState>>

\* loadUserRoles, lines 104-121: up to the await of the token refresh
LoadUserRoles ==
  /\ fePc = "load"
  /\ IF ~keycloak.authenticated
       THEN fePc' = "stopped" /\ UNCHANGED userRolesState
       ELSE /\ userRolesState' = CustomRoles(keycloak.roles)
            /\ fePc' = IF CustomRoles(keycloak.roles) = <<>> /\ retryCount < 3
                         THEN "refresh" ELSE "stopped"
  /\ FeFrame /\ UNCHANGED <<kcVars, keycloak, retryCount>>

\* keycloak.updateToken(-1) answered: the new token carries the mappings the
\* provider holds now
Refreshed == [keycloak EXCEPT !.roles = TokenRoles(grants[FeUser])]

\* callAssignRoleEndpoint, lines 144-145: if (!token) return
CallAssignStart(kc) == IF kc.token THEN "fetch" ELSE "stopped"

\* lines 122-135: the refresh raced against its timeout; then the timer of
\* the next attempt, or the catch with the fallback of the last attempt.
\* A refresh the provider refuses can end the session (clearToken)
LoadRefresh ==
  /\ fePc = "refresh"
  /\ \E ok \in BOOLEAN, cleared \in BOOLEAN :
       IF ok
         THEN /\ ~cleared
              /\ keycloak' = Refreshed
              /\ fePc' = "timer"
         ELSE /\ keycloak' = IF cleared THEN SignedOut ELSE keycloak
              /\ fePc' = IF retryCount >= 2 THEN CallAssignStart(keycloak')
                         ELSE "stopped"
  /\ FeFrame /\ UNCHANGED <<kcVars, userRolesState, retryCount>>

\* line 129: the timer fires, loadUserRoles(retryCount + 1)
LoadTimer ==
  /\ fePc = "timer"
  /\ retryCount' = retryCount + 1
  /\ fePc' = "load"
  /\ FeFrame /\ UNCHANGED <<kcVars, keycloak, userRolesState>>

\* lines 147-155: GET /api/user/assign-role answered. Behind a 2xx answer the
\* backend ran autoAssignRole for the identity, which granted the role to
\* assign or failed silently
AssignFetch ==
  /\ fePc = "fetch"
  /\ \E out \in {"throws", "notok", "ok"}, granted \in BOOLEAN :
       LET role == RoleOrDefault(userAttr[FeUser])
       IN IF out = "ok"
            THEN /\ fePc' = "refresh2"
                 /\ IF granted /\ CustomRoles(keycloak.roles) = <<>>
                      THEN /\ grants' = GrantRole(grants, FeUser, role)
                           /\ realmRoles' = realmRoles \cup {role}
                      ELSE UNCHANGED <<grants, realmRoles>>
            ELSE /\ ~granted
                 /\ fePc' = "stopped"
                 /\ UNCHANGED <<grants, realmRoles>>
  /\ FeFrame /\ UNCHANGED <<userAttr, kcUsers, keycloak, userRolesState, retryCount>>

\* lines 156-157: keycloak.updateToken(-1), then loadUserRoles() with the
\* default retryCount
AssignRefresh ==
  /\ fePc = "refresh2"
  /\ \E ok \in BOOLEAN, cleared \in BOOLEAN :
       IF ok
         THEN /\ ~cleared
              /\ keycloak' = Refreshed
              /\ retryCount' = 0
              /\ fePc' = "load"
         ELSE /\ keycloak' = IF cleared THEN SignedOut ELSE keycloak
              /\ fePc' = "stopped"
              /\ UNCHANGED retryCount
  /\ FeFrame /\ UNCHANGED <<kcVars, userRolesState>>

NextFrontend ==
  \/ FeMount \/ LoadUserRoles \/ LoadRefresh \/ LoadTimer
  \/ AssignFetch \/ AssignRefresh

\* every await of the chain is answered and every timer fires
SpecFrontend == Init /\ [][NextFrontend]_vars /\ WF_vars(NextFrontend)

(* ================================ claims ================================ *)
ErrorStatuses == 400..599
NoTokenReply == Reply(401, "Access denied. No token provided.")

\* the verifier's failing outcomes: no token, a token not reported active,
\* a failed introspection call, an undecodable payload
VerifyFailed(r) ==
  \/ pc[r] \notin {"idle", "verify"} /\ token[r] = <<>>
  \/ introspected[r] \in {"inactive", "http401", "http500", "timeout"}
  \/ introspected[r] = "active" /\ ~Decodable(token[r])

\* a guard or a handler of the route has been entered
Downstream(r) == route[r] # NoVal \/ gatePassed[r] \/ phase[r] \in {"handler", "auto2"}

\* C1: verifyKeycloakToken calls next only for a request that carried a token
\* which the introspection call reported active; in every failing outcome it
\* sends an error response, never calls next, sets no req.user, and nothing
\* downstream of it runs.
Thm_C1 ==
  \A r \in Reqs :
    /\ nextCalled[r] > 0 => token[r] # <<>> /\ introspected[r] = "active"
    /\ Downstream(r) => nextCalled[r] = 1
    /\ VerifyFailed(r) =>
         /\ pc[r] = "done" /\ res[r].status \in ErrorStatuses
         /\ nextCalled[r] = 0 /\ user[r] = NoUser /\ ~Downstream(r)

Wit_C1 ==
  \E r \in Reqs :
    /\ pc[r] = "done" /\ introspected[r] = "inactive"
    /\ res[r].status = 401 /\ nextCalled[r] = 0

\* C2: requireRole(R) calls next iff the identity's roles and R share a role;
\* otherwise it answers 403 with a message listing R and the caller's roles,
\* and next is not called.
Thm_C2 ==
  \A r \in Reqs :
    (gate[r].kind = "role" /\ user[r].id # NoVal /\ pc[r] # "gate") =>
      LET R == IF gate[r].single # NoVal THEN <<gate[r].single>> ELSE gate[r].roles
          U == user[r].roles
      IN IF Range(R) \cap Range(U) # {}
           THEN gatePassed[r] /\ pc[r] = "handler" /\ res[r] = NoRes
           ELSE /\ ~gatePassed[r] /\ pc[r] = "done"
                /\ res[r].status = 403
                /\ res[r].message = "Access denied. Required roles: " \o Join(R, ", ")
                                      \o ". Your roles: " \o Join(U, ", ")

Wit_C2 ==
  \E r \in Reqs :
    /\ gate[r] = RoleGate(<<"moderator", "admin">>)
    /\ user[r].roles = <<"guest", "user">>
    /\ res[r].status = 403
    /\ res[r].message =
         "Access denied. Required roles: moderator, admin. Your roles: guest, user"

\* C3: an admin that targets its own id with the role-update or the delete
\* operation is refused, and its role mappings and account stay as they were.
CE_C3 ==
  \A r \in Reqs :
    (pc[r] = "done" /\ route[r] \in {"putRole", "deleteUser"} /\ gatePassed[r]
       /\ param[r] = user[r].id) =>
      /\ res[r].status # 200
      /\ grants[param[r]] = InitGrants[param[r]]
      /\ param[r] \in kcUsers

\* C4: a failure inside autoAssignRole never rejects the request: the
\* verifier still calls next, and any response is sent downstream of it.
Thm_C4 ==
  \A r \in Reqs :
    "auto" \in aaFailed[r] =>
      /\ introspected[r] = "active"
      /\ nextCalled[r] = 1
      /\ res[r] = NoRes \/ route[r] # NoVal

Wit_C4 ==
  \E r \in Reqs :
    /\ "auto" \in aaFailed[r] /\ Called(r, "grant")
    /\ pc[r] = "route" /\ nextCalled[r] = 1 /\ res[r] = NoRes

\* C5: an introspection call that fails without an unauthorized answer
\* (timeout, provider 5xx) is answered with a 5xx status.
CE_C5 ==
  \A r \in Reqs :
    (pc[r] = "done" /\ introspected[r] \in {"http500", "timeout"}) =>
      res[r].status \in 500..599

\* 'Bearer <token>'
WellFormed(h) == h.present /\ Len(h.chunks) >= 2 /\ Head(h.chunks) = BearerPrefix

\* C6: a request whose Authorization header is missing or not of the form
\* 'Bearer <token>' gets the no-credential answer, and its header is never
\* handed to the introspection call.
CE_C6 ==
  \A r \in Reqs :
    (pc[r] \notin {"idle", "verify"} /\ ~WellFormed(header[r])) =>
      /\ ~Called(r, "introspect")
      /\ res[r] = NoTokenReply

\* C6, local verifier: a missing or malformed header gets the no-credential
\* answer of authenticateToken and nothing is handed to jwt.verify.
LocalNoCredential ==
  \A r \in Reqs :
    (pc[r] \notin {"idle", "l_auth"} /\ ~WellFormed(header[r])) =>
      /\ ~Called(r, "jwtVerify")
      /\ res[r] = Reply(401, "Access token is required")

\* the autoAssignRole call of the verifier chose role x for the request and
\* is over: the request moved on, or was answered
AutoAssigned(r, x) ==
  /\ introspected[r] = "active" /\ roleToAssign[r] = x
  /\ phase[r] = "handler" \/ pc[r] = "done"

SecondCallOver(r) ==
  route[r] = "assignRole" /\ pc[r] = "done" /\ res[r].message = "Role assignment completed"

CE_C9 ==
  \A r \in Reqs :
    (pc[r] = "done" /\ route[r] = "profile") =>
      /\ user[r].roles = <<"admin">> =>
           GetPermissionsFromRoles(<<"moderator">>) \subseteq res[r].permissions
      /\ user[r].roles = <<"moderator">> =>
           GetPermissionsFromRoles(<<"user">>) \subseteq res[r].permissions

\* C10: for an identity with no role the derived permission set is empty and
\* requirePermission(p) answers 403 without calling next, whatever p is.
Thm_C10 ==
  \A r \in Reqs :
    (user[r].id # NoVal /\ user[r].roles = <<>>) =>
      /\ GetUserPermissions(user[r]) = {}
      /\ (gate[r].kind = "perm" /\ pc[r] # "gate") =>
           /\ res[r].status = 403 /\ ~gatePassed[r] /\ pc[r] = "done"

Wit_C10 ==
  \E r \in Reqs :
    /\ user[r].id # NoVal /\ user[r].roles = <<>>
    /\ gate[r] = PermGate("read_profile")
    /\ res[r].status = 403 /\ pc[r] = "done"

\* C11: the roles of the identity that verifyKeycloakToken hands to the rest
\* of the request hold only names out of user, moderator, admin.
CE_C11 ==
  \A r \in Reqs :
    nextCalled[r] > 0 => Range(user[r].roles) \subseteq Recognized

\* C12: whatever the interleaving of role updates and auto-assignments, the
\* provider's mappings give each user at most one of user, moderator, admin.
CE_C12 ==
  \A u \in Users : Cardinality(grants[u] \cap Recognized) <= 1

\* the role lists the routes can hand to requireRole: names of the enumeration
RecognizedGates == SeqsUpTo(Recognized, MaxRoles) \ {<<>>}

\* C13: after a failed autoAssignRole the request goes on with an identity
\* that still has no recognized role, and that identity is refused with 403
\* by requireRole and by requirePermission, whatever they ask for.
Thm_C13 ==
  \A r \in Reqs :
    "auto" \in aaFailed[r] =>
      /\ nextCalled[r] = 1
      /\ CustomRoles(rolesAtNext[r]) = <<>>
      /\ phase[r] = "handler" =>
           /\ \A R \in RecognizedGates : RequireRole(R, user[r]).status = 403
           /\ \A p \in Permissions \cup {"other_permission"} :
                RequirePermission(p, user[r]).status = 403
      /\ (gate[r].kind # NoVal /\ pc[r] # "gate") =>
           /\ ~gatePassed[r] /\ pc[r] = "done" /\ res[r].status = 403

\* the grant failed, the request went on to an admin route and was refused
Wit_C13 ==
  \E r \in Reqs :
    /\ "auto" \in aaFailed[r] /\ Called(r, "grant")
    /\ user[r].roles = <<>> /\ user[r].selectedRole = "admin"
    /\ route[r] = "deleteUser" /\ pc[r] = "done"
    /\ res[r] = Reply(403, "Access denied. Required roles: admin. Your roles: ")
    /\ kcUsers = Users

\* C14: an expired token of the local scheme is answered 401 by
\* authenticateToken; next is not called and no user is attached.
Thm_C14 ==
  \A r \in Reqs :
    (token[r] = <<"expired">> /\ pc[r] \notin {"idle", "l_auth"}) =>
      /\ pc[r] = "done" /\ res[r] = Reply(401, "Invalid token")
      /\ nextCalled[r] = 0 /\ luser[r] = NoLocalUser /\ decoded[r] = NoVal

Wit_C14 ==
  \E r \in Reqs :
    /\ header[r] = [present |-> TRUE, chunks |-> <<BearerPrefix, "expired">>]
    /\ Called(r, "jwtVerify") /\ ~Called(r, "findById")
    /\ pc[r] = "done" /\ res[r].status = 401 /\ nextCalled[r] = 0
    /\ store = SeedRecords

\* the request carried a valid token whose record is gone, and is answered
RecordGone(r) ==
  /\ pc[r] = "done" /\ JwtVerify(token[r]) = "ok"
  /\ \E i \in 1..Len(log[r]) : log[r][i][2] = "findById" /\ log[r][i][3] = "null"

\* the request carried a token that failed signature validation, and is answered
BadSignature(r) ==
  pc[r] = "done" /\ token[r] # <<>> /\ JwtVerify(token[r]) = "JsonWebTokenError"

\* C15: a valid token whose Credential Record no longer exists gets the very
\* answer (status and message) a token with a bad signature gets, and next is
\* not called.
Thm_C15 ==
  \A r1, r2 \in Reqs :
    (RecordGone(r1) /\ BadSignature(r2)) =>
      /\ res[r1] = res[r2] /\ res[r1].status = 401
      /\ nextCalled[r1] = 0 /\ luser[r1] = NoLocalUser

Wit_C15 ==
  \E r1, r2 \in Reqs :
    /\ RecordGone(r1) /\ BadSignature(r2)
    /\ decoded[r1] = "a2" /\ store = {u \in SeedRecords : u.id = "a1"}
    /\ res[r1] = res[r2]

\* the autoAssignRole call of the verifier granted a role at the provider
GrantedInVerifier(r) ==
  \E i \in Calls(r, "auto") : log[r][i][2] = "grant" /\ log[r][i][3] = "ok"

\* C16: an identity verified with no roles and selectedRole moderator has,
\* once autoAssignRole succeeded, the roles [moderator] in the same request;
\* its permissions hold view_stats, and requireRole(['admin']) refuses it
\* with 403 and 'Required roles: admin. Your roles: moderator'.
Thm_C16 ==
  \A r \in Reqs :
    (user[r].selectedRole = "moderator" /\ GrantedInVerifier(r)
       /\ Len(user[r].roles) <= 1) =>
      /\ user[r].roles = <<"moderator">> /\ rolesAtNext[r] = <<"moderator">>
      /\ "moderator" \in grants[user[r].id] \/ user[r].id \notin kcUsers
      /\ "view_stats" \in GetUserPermissions(user[r])
      /\ (route[r] = "profile" /\ pc[r] = "done") => "view_stats" \in res[r].permissions
      /\ (gate[r] = RoleGate(<<"admin">>) /\ pc[r] # "gate") =>
           /\ ~gatePassed[r] /\ pc[r] = "done"
           /\ res[r] = Reply(403, "Access denied. Required roles: admin. Your roles: moderator")

Wit_C16 ==
  \E r \in Reqs :
    /\ user[r].selectedRole = "moderator" /\ GrantedInVerifier(r)
    /\ user[r].roles = <<"moderator">> /\ route[r] = "putRole"
    /\ res[r] = Reply(403, "Access denied. Required roles: admin. Your roles: moderator")

\* the registration of request r is over and did not answer 201
RegFailed(r) == pc[r] = "done" /\ regBody[r] # NoBody /\ res[r].status # 201

\* C17: no two Credential Records share a username or an email, whatever
\* the registrations and their interleaving; a registration that fails
\* leaves no record, and one that succeeds leaves exactly its own.
Thm_C17 ==
  /\ \A u, v \in store : (u.username = v.username \/ u.email = v.email) => u = v
  /\ \A r \in Reqs :
       /\ RegFailed(r) => \A u \in store : u.id # NewIds[r]
       /\ res[r].status = 201 => NewUser(r, regBody[r]) \in store

\* both requests passed the duplicate lookup with the same username; the
\* second save was refused by the index
Wit_C17 ==
  \E r1, r2 \in Reqs :
    /\ r1 # r2 /\ pc[r1] = "done" /\ pc[r2] = "done"
    /\ Trim(regBody[r1].username) = Trim(regBody[r2].username)
    /\ regBody[r1].email # regBody[r2].email
    /\ res[r1].status = 201 /\ res[r2].status = 500
    /\ \E i \in 1..Len(log[r2]) : log[r2][i][2] = "save" /\ log[r2][i][3] = "E11000"
    /\ Cardinality(store) = 1

\* the 'role' attribute the verifier's autoAssignRole read at the provider
\* (NoVal: the lookup was not made, failed, or found none)
AttributeRead(r) ==
  IF \E i \in Calls(r, "auto") : log[r][i][2] = "getUser" /\ log[r][i][3] = "ok"
    THEN userAttr[user[r].id] ELSE NoVal

\* the role the order of the claim picks: selectedRole, else the stored
\* attribute, else user
RoleByOrder(r) ==
  IF user[r].selectedRole # NoVal THEN user[r].selectedRole
  ELSE IF AttributeRead(r) # NoVal THEN AttributeRead(r)
  ELSE "user"

\* the autoAssignRole call of the verifier went past its filter and is over
AssignmentAttempted(r) ==
  phase[r] = "handler" /\ (roleToAssign[r] # NoVal \/ Calls(r, "auto") # {})

\* C18: for an identity without a recognized role autoAssignRole picks the
\* selectedRole, else the attribute stored at the provider if it can be
\* read, else user; so without either of the first two it picks user.
CE_C18 ==
  \A r \in Reqs : AssignmentAttempted(r) => roleToAssign[r] = RoleByOrder(r)

\* C18, where the code agrees: whenever autoAssignRole got as far as picking
\* a role, it is the role of that order, and it is the only role it grants.
RoleChoiceOrder ==
  \A r \in Reqs :
    (phase[r] = "handler" /\ roleToAssign[r] # NoVal) =>
      /\ roleToAssign[r] = RoleByOrder(r)
      /\ GrantedInVerifier(r) => user[r].roles = Append(SubSeq(user[r].roles, 1, Len(user[r].roles) - 1), RoleByOrder(r))

\* the calls assignRoleToUser made for request r in one call of autoAssignRole
AssignCalls(r, ph) ==
  SelectSeq(log[r], LAMBDA e : e[1] = ph /\ e[2] \in {"getRole", "createRole", "grant"})

\* call k of s failed, other than a first lookup answered 404
Failing(s, k) == s[k][3] # "ok" /\ ~(k = 1 /\ s[1][2] = "getRole" /\ s[1][3] = "404")

\* C19: assignRoleToUser issues the grant only right after a lookup of the
\* role that succeeded, the first one or the one that follows creating the
\* role after a 404; a lookup failing otherwise, a failed creation or a
\* failed second lookup ends it with the error thrown and no grant issued.
Thm_C19 ==
  \A r \in Reqs : \A ph \in {"auto", "auto2"} :
    LET s == AssignCalls(r, ph)
    IN /\ \A k \in 1..Len(s) :
            s[k][2] = "grant" =>
              /\ k > 1 /\ s[k-1][2] = "getRole" /\ s[k-1][3] = "ok"
              /\ \/ k = 2
                 \/ /\ k = 4 /\ s[1][2] = "getRole" /\ s[1][3] = "404"
                    /\ s[2][2] = "createRole" /\ s[2][3] = "ok"
       /\ \A k \in 1..Len(s) :
            Failing(s, k) => k = Len(s) /\ ph \in aaFailed[r]
       /\ \A k \in 1..Len(s) : s[k][2] = "createRole" => k = 2 /\ s[1][3] = "404"

\* the first lookup was answered 404, the role was created, the second lookup
\* succeeded and the grant was issued
Wit_C19 ==
  \E r \in Reqs :
    LET s == AssignCalls(r, "auto")
    IN /\ Len(s) = 4 /\ s[1] = <<"auto", "getRole", "404">>
       /\ s[2] = <<"auto", "createRole", "ok">> /\ s[3] = <<"auto", "getRole", "ok">>
       /\ s[4] = <<"auto", "grant", "ok">>
       /\ roleToAssign[r] \in grants[user[r].id] /\ "auto" \notin aaFailed[r]

\* autoAssignRole is entered for request r, whose identity holds a role out
\* of user, moderator, admin
EntersWithRole(r) ==
  pc[r] = "aa_start" /\ Range(user[r].roles) \cap Recognized # {}

\* C20: entered with an identity that already holds a recognized role,
\* autoAssignRole returns at once: it makes no call to the provider (no
\* admin-token request, attribute lookup, role creation or grant) and
\* leaves the identity's roles and the provider's state as they are.
Thm_C20 ==
  [][\A r \in Reqs :
       (EntersWithRole(r) /\ pc'[r] # pc[r]) =>
         /\ log'[r] = log[r] /\ user'[r] = user[r]
         /\ UNCHANGED <<realmRoles, grants, userAttr, kcUsers>>
         /\ aaFailed'[r] = aaFailed[r] /\ roleToAssign'[r] = roleToAssign[r]
         /\ pc'[r] = "route" /\ nextCalled'[r] = 1]_vars

\* the verifier called next for an identity with a recognized role, having
\* made no call but the introspection
Wit_C20 ==
  \E r \in Reqs :
    /\ pc[r] = "route" /\ user[r].roles = <<"moderator">>
    /\ user[r].selectedRole = "admin"
    /\ Len(log[r]) = 1 /\ rolesAtNext[r] = <<"moderator">> /\ grants = InitGrants

\* this step is the grant call of request r, answered with success, followed
\* by the push of the granted role
GrantStep(r) ==
  /\ log'[r] = Append(log[r], <<phase[r], "grant", "ok">>)
  /\ user'[r].roles = Append(user[r].roles, roleToAssign[r])
  /\ roleToAssign[r] \in grants'[user[r].id]

\* C21: the roles of the request's identity change only in the step in which
\* the provider's role-mapping call succeeded; a step in which a call of
\* autoAssignRole fails leaves them as they were, and an autoAssignRole call
\* that failed has pushed nothing.
Thm_C21 ==
  [][\A r \in Reqs :
       user[r].id # NoVal =>
         /\ user'[r].roles # user[r].roles => GrantStep(r)
         /\ aaFailed'[r] # aaFailed[r] =>
              /\ user'[r] = user[r]
              /\ \A i \in 1..Len(log'[r]) :
                   (log'[r][i][1] \in aaFailed'[r] \ aaFailed[r] /\ log'[r][i][2] = "grant")
                     => log'[r][i][3] # "ok"]_vars

\* the grant call failed and the request went on with the roles it had
Wit_C21 ==
  \E r \in Reqs :
    /\ "auto" \in aaFailed[r] /\ nextCalled[r] = 1
    /\ log[r][Len(log[r])] = <<"auto", "grant", "fail">>
    /\ user[r].roles = <<"guest">> /\ user[r].selectedRole = "moderator"
    /\ rolesAtNext[r] = <<"guest">> /\ grants = InitGrants

\* C22: autoAssignRole creates no role in the realm, and grants no role to a
\* user, whose name is outside user, moderator, admin.
CE_C22 ==
  /\ realmRoles \subseteq Recognized
  /\ \A u \in Users : grants[u] \subseteq Recognized

\* C23: a role update that is answered with an error leaves the target
\* user's mappings of user, moderator, admin as they were before the request.
CE_C23 ==
  \A r \in Reqs :
    (route[r] = "putRole" /\ gatePassed[r] /\ pc[r] = "done"
       /\ res[r].status \in ErrorStatuses /\ ~GrantedInVerifier(r)) =>
      grants[param[r]] \cap Recognized = InitGrants[param[r]] \cap Recognized

LoginNoRecord(r) ==
  /\ pc[r] = "done" /\ Len(log[r]) = 1
  /\ log[r][1][2] = "login.findOne" /\ log[r][1][3] = "null"
LoginWrongPassword(r) ==
  /\ pc[r] = "done" /\ Called(r, "comparePassword")
  /\ luser[r].password # Hash(regBody[r].password)

\* C25: POST /api/auth/login answers a login whose email matches no record
\* and a login whose email exists but whose password is wrong with the same
\* response, 401 'Invalid credentials' without a token; and a token is in the
\* response only when the record exists and the password matches
CE_C25 ==
  /\ \A r1, r2 \in {1, 2} :
       (LoginNoRecord(r1) /\ LoginWrongPassword(r2))
         => /\ res[r1] = res[r2]
            /\ res[r1].status = 401 /\ res[r1].message = "Invalid credentials"
            /\ "token" \notin DOMAIN res[r1]
  /\ \A r \in {1, 2} :
       "token" \in DOMAIN res[r] =>
         \E u \in store : /\ u.email = regBody[r].email
                          /\ u.password = Hash(regBody[r].password)
                          /\ res[r].token = GenerateToken(u.id)

\* C26: once the local guard authorize(R) has run on a request: with an
\* authenticated user and a non-empty list R it has called next exactly when
\* the user's role is in R, and has otherwise answered 403 without calling
\* next; without an authenticated user it has answered 401 and not called next
Thm_C26 ==
  \A r \in Reqs :
    gate[r].kind = "authorize" =>
      LET R == gate[r].roles
          u == luser[r]
      IN /\ (u # NoLocalUser /\ R # <<>>) =>
              /\ gatePassed[r] <=> (\E i \in 1..Len(R) : R[i] = u.role)
              /\ IF gatePassed[r]
                   THEN pc[r] = "l_handler" /\ nextCalled[r] = 2 /\ res[r] = NoRes
                   ELSE pc[r] = "done" /\ nextCalled[r] = 1 /\ res[r].status = 403
         /\ u = NoLocalUser =>
              /\ ~gatePassed[r] /\ nextCalled[r] = 0
              /\ pc[r] = "done" /\ res[r].status = 401

\* a user record has met a list that does not hold its role and was refused
Wit_C26 ==
  /\ gate[1] = AuthorizeGate(<<"moderator", "admin">>)
  /\ luser[1].role = "user" /\ nextCalled[1] = 1
  /\ res[1] = Reply(403, "Access denied. Required role: moderator or admin")

\* the outbound calls a request has made in a step
CallCount(r, ph) == Cardinality(Calls(r, ph))

\* C27 as stated: for every request, the token verifier and the role
\* auto-assignment each make at most two outbound calls to the identity
\* provider.
CE_C27 ==
  \A r \in Reqs : CallCount(r, "verify") <= 2 /\ CallCount(r, "auto") <= 2

\* C27 as amended: for every request, the token verifier makes at most one
\* outbound call (the introspection) and a run of the role auto-assignment at
\* most seven (admin token, user lookup, admin token, role lookup, role
\* creation, second role lookup, grant), more than five only when the first
\* role lookup was answered 404, and none at all for an identity that already
\* carries a recognized role.
Thm_C27 ==
  \A r \in Reqs :
    /\ CallCount(r, "verify") <= 1
    /\ \A ph \in {"auto", "auto2"} :
         /\ CallCount(r, ph) <= 7
         /\ CallCount(r, ph) > 5 =>
              \E i \in Calls(r, ph) : log[r][i][2] = "getRole" /\ log[r][i][3] = "404"
    /\ pc[r] \in {"aa_tok1", "aa_attr", "aa_tok2", "ar_get1", "ar_create",
                  "ar_get2", "ar_grant"} =>
         \A i \in 1..Len(user[r].roles) : user[r].roles[i] \notin Recognized

\* the verifier made its one call and the auto-assignment all seven of its own
Wit_C27 ==
  \E r \in Reqs :
    /\ CallCount(r, "verify") = 1 /\ CallCount(r, "auto") = 7
    /\ log[r][Len(log[r])] = <<"auto", "grant", "ok">>
    /\ phase[r] = "handler"

\* C28: whenever POST /select-role answers "Role '<r>' assigned successfully"
\* for a valid role r, the calling user holds r in the identity provider's
\* role mappings after the request
CE_C28 ==
  \A r \in Reqs :
    (/\ route[r] = "selectRole" /\ pc[r] = "done"
     /\ body[r] \in {"user", "moderator", "admin"}
     /\ res[r].message = "Role '" \o body[r] \o "' assigned successfully")
      => body[r] \in grants[user[r].id]

\* C29: for every role set, the empty one included, the permissions the
\* frontend derives from it (Home getPermissionsFromRoles) are the permissions
\* the backend derives from it (keycloakAuth getPermissionsFromRoles), so a
\* permission the UI shows is never one the backend's permission guard denies
CE_C29 ==
  uiPermissions # NoPermissions =>
    /\ Range(uiPermissions) = GetPermissionsFromRoles(userRolesState)
    /\ \A r \in Reqs :
         (/\ gate[r].kind = "perm" /\ pc[r] # "gate"
          /\ Range(user[r].roles) = Range(userRolesState)
          /\ gate[r].perm \in Range(uiPermissions))
           => gatePassed[r]

\* C30: in the Keycloak frontend the retry chain started by loadUserRoles
\* eventually stops for a user whose token never carries a recognized role,
\* whatever the pattern of successes and failures of the refresh and
\* assign-role calls: unless the token comes to carry a recognized role, the
\* chain reaches its end
CE_C30 == <>(fePc = "stopped" \/ CustomRoles(keycloak.roles) # <<>>)

====
